---- MODULE Spec2Model ----
(***************************************************************************)
(* Model of the multi-agent transaction backend                            *)
(* (scripts/repro-rust-backend/src/main.rs): an in-memory store of         *)
(* hex-encoded transactions keyed by a caller-chosen identifier, with the  *)
(* three handlers store_transaction, store_signature and get_transaction,  *)
(* and the helpers parse_sequence_number and try_reserialize.              *)
(*                                                                         *)
(* Text is a sequence of characters, a character a one-element name; the   *)
(* only character wider than one byte is NonAscii.  Bytes are 0..255.  A   *)
(* u64 is held as its four 16-bit limbs, least significant first, because  *)
(* the model checker's integers are 32 bits wide.  Option<T> is a sequence *)
(* of length 0 (None) or 1 (Some).                                         *)
(*                                                                         *)
(* Spec handles one request at a time, each handler as one step, under a   *)
(* clock that moves forward.  SpecConc handles requests in flight          *)
(* together, each handler step by step around its lock(), under a clock    *)
(* that can be set.                                                        *)
(***************************************************************************)
EXTENDS Integers, Sequences, FiniteSets, TLC

\* ------------------------------------------------------------------ bounds

\* The latest second the clock reads during a run.
MaxTime == 1
\* Bytes that follow the sequence-number field in the longest payloads.
TailLen == 2

\* ------------------------------------------------------- program constants

\* Bytes of the sender address that precede the sequence number.
SeqOffset == 32
\* Width of the sequence number in bytes.
SeqWidth == 8
\* Minimum buffer length that holds the sequence number.
MinSeqLen == 40
\* Bytes of a string shown by the handlers' diagnostic prints.
PreviewLen == 60

\* ------------------------------------------------------------ Option<T>

None == <<>>
Some(v) == <<v>>
IsSome(o) == Len(o) = 1
Unwrap(o) == o[1]

\* ------------------------------------------------------------ characters

HexLower == <<"0","1","2","3","4","5","6","7","8","9","a","b","c","d","e","f">>
HexUpper == <<"0","1","2","3","4","5","6","7","8","9","A","B","C","D","E","F">>
\* A character whose UTF-8 encoding is two bytes long.
NonAscii == "U+00E9"

Utf8Width(c) == IF c = NonAscii THEN 2 ELSE 1

\* str::len: the length of a string in bytes.
ByteLen(s) == Len(s) + (Utf8Width(NonAscii) - 1) * Cardinality({i \in 1..Len(s) : s[i] = NonAscii})

Min(a, b) == IF a < b THEN a ELSE b

\* str::is_char_boundary: k is 0, the byte length, or the start of a character.
IsCharBoundary(s, k) ==
    \E n \in 0..Len(s) : ByteLen(SubSeq(s, 1, n)) = k

\* &s[..min(60, s.len())] panics when the cut falls inside a character.
PreviewCutInsideChar(s) == ~IsCharBoundary(s, Min(PreviewLen, ByteLen(s)))

\* Variant of Strip0x that removes the prefix in either case.
Strip0xAnyCase(s) ==
    IF Len(s) >= 2 /\ s[1] = "0" /\ s[2] \in {"x", "X"} THEN SubSeq(s, 3, Len(s)) ELSE s

\* str::strip_prefix("0x").unwrap_or(s)
StartsWith0x(s) == Len(s) >= 2 /\ s[1] = "0" /\ s[2] = "x"
Strip0x(s) == IF StartsWith0x(s) THEN SubSeq(s, 3, Len(s)) ELSE s

\* ------------------------------------------------------------ hex crate

\* The value of a hex digit of either case, -1 for any other character.
HexValue(c) ==
    IF \E i \in 1..16 : HexLower[i] = c
    THEN (CHOOSE i \in 1..16 : HexLower[i] = c) - 1
    ELSE IF \E i \in 1..16 : HexUpper[i] = c
         THEN (CHOOSE i \in 1..16 : HexUpper[i] = c) - 1
         ELSE -1

\* hex::decode: Err on an odd length or on any character that is no hex digit.
HexDecodeOf(s) ==
    IF ByteLen(s) % 2 # 0 \/ \E i \in 1..Len(s) : HexValue(s[i]) < 0
    THEN [ok |-> FALSE, bytes |-> <<>>]
    ELSE [ok |-> TRUE,
          bytes |-> [i \in 1..(Len(s) \div 2) |->
                        16 * HexValue(s[2*i - 1]) + HexValue(s[2*i])]]

\* hex::encode: two lowercase digits per byte.
HexEncode(bytes) ==
    [k \in 1..(2 * Len(bytes)) |->
        IF k % 2 = 1 THEN HexLower[(bytes[(k + 1) \div 2] \div 16) + 1]
                     ELSE HexLower[(bytes[k \div 2] % 16) + 1]]

\* ---------------------------------------------------------------- inputs

Ids == {"t1", "t2"}

Rep(n, x) == [i \in 1..n |-> x]
ToUpper(s) == [i \in 1..Len(s) |-> IF HexValue(s[i]) >= 0 THEN HexUpper[HexValue(s[i]) + 1] ELSE s[i]]

\* Payloads: sender address, sequence number (little-endian), and a tail.
Seq42 == <<42, 0, 0, 0, 0, 0, 0, 0>>
SeqHi == <<1, 2, 3, 4, 5, 6, 7, 136>>
TailBytes == [i \in 1..TailLen |-> (16 * i + 15) % 256]
Exact42 == Rep(SeqOffset, 0) \o Seq42
LongHi == Rep(SeqOffset, 171) \o SeqHi \o TailBytes
Short39 == SubSeq(LongHi, 1, MinSeqLen - 1)

\* The strings a caller submits as bcs_hex: a 0x-prefixed lowercase payload of
\* exactly 40 bytes, the same longer payload in uppercase without prefix and
\* in lowercase with a 0X prefix, a lowercase payload of 39 bytes, text that
\* is no hex (odd length, a letter past f, a non-ASCII character), and
\* non-ASCII text that the preview cuts inside a character.
BcsInputs ==
    { <<"0", "x">> \o HexEncode(Exact42),
      ToUpper(HexEncode(LongHi)),
      <<"0", "X">> \o HexEncode(LongHi),
      HexEncode(Short39),
      <<"g", NonAscii>>,
      Rep(PreviewLen - 1, "0") \o <<NonAscii>> \o Rep(TailLen, "0") }

\* The strings a caller submits as signature_hex.
SigInputs ==
    { <<"a", "b">>,
      <<"0", "x", "C", "D">>,
      Rep(PreviewLen - 1, "a") \o <<NonAscii>> \o Rep(TailLen, "a") }

\* The values of the two costly string functions on the inputs, computed once.
PreviewMemo == [s \in BcsInputs \cup SigInputs |-> PreviewCutInsideChar(s)]
PreviewPanics(s) == PreviewMemo[s]
HexDecodeMemo == [s \in {Strip0x(t) : t \in BcsInputs} |-> HexDecodeOf(s)]
HexDecode(s) == HexDecodeMemo[s]

\* ------------------------------------------------- parse_sequence_number

\* Variant of FromLeBytes that reads the bytes most significant first.
FromBeBytes(b) ==
    [k \in 1..(SeqWidth \div 2) |-> b[SeqWidth - 2*k + 2] + 256 * b[SeqWidth - 2*k + 1]]

\* u64::from_le_bytes, as 16-bit limbs: limb k holds bytes 2k-1 and 2k.
FromLeBytes(b) == [k \in 1..(SeqWidth \div 2) |-> b[2*k - 1] + 256 * b[2*k]]

\* Variant of parse_sequence_number that also rejects a buffer of exactly the
\* minimum length.
parse_sequence_number_strict(bcs_hex) ==
    LET d == HexDecode(Strip0x(bcs_hex)) IN
    IF ~d.ok THEN None
    ELSE IF Len(d.bytes) <= MinSeqLen THEN None
    ELSE Some(FromLeBytes(SubSeq(d.bytes, SeqOffset + 1, SeqOffset + SeqWidth)))

parse_sequence_number(bcs_hex) ==
    LET d == HexDecode(Strip0x(bcs_hex)) IN
    IF ~d.ok THEN None
    ELSE IF Len(d.bytes) < MinSeqLen THEN None
    ELSE Some(FromLeBytes(SubSeq(d.bytes, SeqOffset + 1, SeqOffset + SeqWidth)))

\* ------------------------------------------------------- aptos_bcs codec

\* What the external codec may answer on a byte buffer: from_bytes fails,
\* to_bytes fails, or to_bytes yields the bytes again, one byte fewer, or the
\* bytes with the first one changed.  The codec is outside this program, so
\* every answer is possible on every buffer.
Reencodings(bytes) ==
    {bytes}
    \cup (IF bytes = <<>> THEN {}
          ELSE {SubSeq(bytes, 1, Len(bytes) - 1),
                [bytes EXCEPT ![1] = (@ + 1) % 256]})

CodecAnswers(bytes) ==
    {[from_bytes |-> FALSE, to_bytes |-> FALSE, out |-> <<>>],
     [from_bytes |-> TRUE, to_bytes |-> FALSE, out |-> <<>>]}
    \cup {[from_bytes |-> TRUE, to_bytes |-> TRUE, out |-> b] : b \in Reencodings(bytes)}

\* The codec is not called when the hex does not decode.
NoAnswer == [from_bytes |-> FALSE, to_bytes |-> FALSE, out |-> <<>>]

\* ------------------------------------------------------- try_reserialize

Ok(v) == [ok |-> TRUE, val |-> v, err |-> "", out |-> <<>>]
Err(e) == [ok |-> FALSE, val |-> <<>>, err |-> e, out |-> <<>>]

\* Variant of try_reserialize that encodes the bytes it decoded, not the bytes
\* the codec produced.
try_reserialize_stored(bcs_hex, codec) ==
    LET d == HexDecode(Strip0x(bcs_hex)) IN
    IF ~d.ok THEN Err("hex decode error")
    ELSE IF ~codec.from_bytes THEN Err("BCS deserialize error")
    ELSE IF ~codec.to_bytes THEN Err("BCS serialize error")
    ELSE [Ok(IF StartsWith0x(bcs_hex) THEN <<"0", "x">> \o HexEncode(d.bytes)
                                      ELSE HexEncode(d.bytes))
          EXCEPT !.out = codec.out]

\* try_reserialize on bcs_hex, the codec answering `codec` on the decoded bytes.
\* `out` keeps the bytes the codec re-encoded, for the claims to refer to.
try_reserialize(bcs_hex, codec) ==
    LET hex_str == Strip0x(bcs_hex)
        has_prefix == StartsWith0x(bcs_hex)
        d == HexDecode(hex_str)
    IN  IF ~d.ok THEN Err("hex decode error")
        ELSE IF ~codec.from_bytes THEN Err("BCS deserialize error")
        ELSE IF ~codec.to_bytes THEN Err("BCS serialize error")
        ELSE [Ok(IF has_prefix THEN <<"0", "x">> \o HexEncode(codec.out)
                               ELSE HexEncode(codec.out))
              EXCEPT !.out = codec.out]

\* ----------------------------------------------------------------- state

VARIABLES
    transactions,      \* AppState.transactions: id -> Option<StoredTransaction>
    reserialize_mode,  \* AppState.reserialize_mode, fixed at startup
    now,               \* SystemTime::now() in seconds
    req,               \* the request last handled: operation, identifier,
                       \* argument (for get_transaction the codec's answer),
                       \* and what the identifier held when it arrived
    resp,              \* what its handler returned
    hist,              \* per id: the bcs_hex of the last store_transaction that
                       \* returned, and the signature_hex of the last
                       \* store_signature that succeeded since
    tasks,             \* per request task in flight: where its handler stands
    guard,             \* the tasks that hold a MutexGuard of the store
    poisoned           \* whether a task panicked while it held the guard

vars == <<transactions, reserialize_mode, now, req, resp, hist,
          tasks, guard, poisoned>>

\* The state of concurrent request handling.
conc == <<tasks, guard, poisoned>>

\* The request tasks that may be in flight together.
Tasks == {"a", "b"}

\* A task that handles no request.
Idle == [pc |-> "idle", op |-> "none", id |-> "", arg |-> <<>>,
         local |-> <<>>, floor |-> FALSE]

StoredTransaction(raw, seq, sig, at) ==
    [raw_bcs_hex |-> raw, sequence_number |-> seq,
     secondary_signature_hex |-> sig, stored_at |-> at]

NoDiag == [reserialize |-> "none", out |-> <<>>,
           length_changed |-> FALSE, content_changed |-> FALSE]

\* What the store holds under id: nothing, a record, a record with a signature.
Held(id) ==
    IF ~IsSome(transactions[id]) THEN "nothing"
    ELSE IF IsSome(Unwrap(transactions[id]).secondary_signature_hex) THEN "signed"
    ELSE "unsigned"

Request(op, id, arg) == [op |-> op, id |-> id, arg |-> arg, held |-> Held(id)]

\* A count of seconds as a u64, in 16-bit limbs like a sequence number.
U64(n) == <<n % 65536, (n \div 65536) % 65536, 0, 0>>

\* a - b on u64 where the build has no overflow checks: it wraps below zero.
WrappingSub(a, b) ==
    IF a >= b THEN U64(a - b)
    ELSE <<65536 - (b - a), 65535, 65535, 65535>>

\* A handler's reply.  status "PANIC" stands for a handler that panicked: the
\* task ends and the caller gets no reply.
Response(status, bcs, sig, seq, at, elapsed, diag) ==
    [status |-> status, success |-> (status = "OK"),
     bcs_hex |-> bcs, secondary_signature_hex |-> sig,
     sequence_number |-> seq, stored_at |-> at, elapsed |-> elapsed, diag |-> diag]

Panicked == Response("PANIC", None, None, None, None, None, NoDiag)

\* Variant of MapInsert that keeps the signature of the record it replaces.
MapInsertMerge(m, k, v) ==
    IF IsSome(m[k])
    THEN [m EXCEPT ![k] = Some([v EXCEPT !.secondary_signature_hex =
                                             Unwrap(m[k]).secondary_signature_hex])]
    ELSE [m EXCEPT ![k] = Some(v)]

\* Variant of MapInsert that keeps only the newest record.
MapInsertEvict(m, k, v) == [j \in DOMAIN m |-> IF j = k THEN Some(v) ELSE None]

\* HashMap::insert / get / get_mut
MapInsert(m, k, v) == [m EXCEPT ![k] = Some(v)]
MapGet(m, k) == m[k]

\* Variant of SetSignature that signs every record of the store.
SetSignatureAll(m, k, sig) ==
    [j \in DOMAIN m |->
        IF IsSome(m[j]) THEN Some([Unwrap(m[j]) EXCEPT !.secondary_signature_hex = Some(sig)])
        ELSE m[j]]

\* Variant of SetSignature that keeps a signature already attached.
SetSignatureOnce(m, k, sig) ==
    IF IsSome(Unwrap(m[k]).secondary_signature_hex) THEN m
    ELSE [m EXCEPT ![k] = Some([Unwrap(@) EXCEPT !.secondary_signature_hex = Some(sig)])]

\* Variant of SetSignature that also stamps the record with the current time.
SetSignatureRestamp(m, k, sig) ==
    [m EXCEPT ![k] = Some([Unwrap(@) EXCEPT !.secondary_signature_hex = Some(sig),
                                            !.stored_at = now])]

\* tx.secondary_signature_hex = Some(sig) on the record get_mut found
SetSignature(m, k, sig) ==
    [m EXCEPT ![k] = Some([Unwrap(@) EXCEPT !.secondary_signature_hex = Some(sig)])]

Init ==
    /\ transactions = [i \in Ids |-> None]
    /\ reserialize_mode \in BOOLEAN
    /\ now = 0
    /\ req = [op |-> "none", id |-> "", arg |-> <<>>, held |-> "nothing"]
    /\ resp = Response("NONE", None, None, None, None, None, NoDiag)
    /\ hist = [i \in Ids |-> [bcs_hex |-> None, signature_hex |-> None]]
    /\ tasks = [t \in Tasks |-> Idle]
    /\ guard = {}
    /\ poisoned = FALSE

\* ------------------------------------------------------ store_transaction

\* The record store_transaction builds (lines 102-115).
NewRecord(bcs_hex) ==
    StoredTransaction(bcs_hex, parse_sequence_number(bcs_hex), None, now)

store_transaction(id, bcs_hex) ==
    /\ req' = Request("store_transaction", id, bcs_hex)
    /\ IF PreviewPanics(bcs_hex)
       THEN /\ resp' = Panicked
            /\ UNCHANGED <<transactions, hist>>
       ELSE /\ transactions' = MapInsert(transactions, id, NewRecord(bcs_hex))
            /\ resp' = Response("OK", None, None, parse_sequence_number(bcs_hex),
                                None, None, NoDiag)
            /\ hist' = [hist EXCEPT ![id] = [bcs_hex |-> Some(bcs_hex),
                                             signature_hex |-> None]]
    /\ UNCHANGED <<reserialize_mode, now>>
    /\ UNCHANGED conc

\* -------------------------------------------------------- store_signature

\* Variant of store_signature that creates a record for an unknown identifier.
store_signature_upsert(id, signature_hex) ==
    /\ req' = Request("store_signature", id, signature_hex)
    /\ IF PreviewPanics(signature_hex)
       THEN /\ resp' = Panicked
            /\ UNCHANGED <<transactions, hist>>
       ELSE /\ transactions' =
                 IF IsSome(MapGet(transactions, id))
                 THEN SetSignature(transactions, id, signature_hex)
                 ELSE MapInsert(transactions, id,
                                StoredTransaction(<<>>, None, Some(signature_hex), now))
            /\ resp' = Response("OK", None, None, None, None, None, NoDiag)
            /\ hist' = [hist EXCEPT ![id].signature_hex = Some(signature_hex)]
    /\ UNCHANGED <<reserialize_mode, now>>
    /\ UNCHANGED conc

store_signature(id, signature_hex) ==
    /\ req' = Request("store_signature", id, signature_hex)
    /\ IF PreviewPanics(signature_hex)
       THEN /\ resp' = Panicked
            /\ UNCHANGED <<transactions, hist>>
       ELSE IF IsSome(MapGet(transactions, id))
       THEN /\ transactions' = SetSignature(transactions, id, signature_hex)
            /\ resp' = Response("OK", None, None, None, None, None, NoDiag)
            /\ hist' = [hist EXCEPT ![id].signature_hex = Some(signature_hex)]
       ELSE /\ resp' = Response("NOT_FOUND", None, None, None, None, None, NoDiag)
            /\ UNCHANGED <<transactions, hist>>
    /\ UNCHANGED <<reserialize_mode, now>>
    /\ UNCHANGED conc

\* -------------------------------------------------------- get_transaction

\* Variant of BcsToReturn that returns the stored hex decoded and encoded again
\* (prefix stripped, lowercase) instead of the stored text.
BcsToReturnNormalised(tx, codec) ==
    LET d == HexDecode(Strip0x(tx.raw_bcs_hex)) IN
    [bcs_hex |-> IF d.ok THEN HexEncode(d.bytes) ELSE tx.raw_bcs_hex, diag |-> NoDiag]

\* Variant of BcsToReturn that returns no text when try_reserialize fails.
BcsToReturnNoFallback(tx, codec) ==
    IF reserialize_mode
    THEN LET r == try_reserialize(tx.raw_bcs_hex, codec) IN
         IF r.ok
         THEN [bcs_hex |-> r.val,
               diag |-> [reserialize |-> "ok", out |-> r.out,
                         length_changed |-> ByteLen(tx.raw_bcs_hex) # ByteLen(r.val),
                         content_changed |-> tx.raw_bcs_hex # r.val]]
         ELSE [bcs_hex |-> <<>>,
               diag |-> [NoDiag EXCEPT !.reserialize = r.err]]
    ELSE [bcs_hex |-> tx.raw_bcs_hex, diag |-> NoDiag]

\* The hex get_transaction returns for a found record, with its diagnostics
\* (lines 196-223).  The previews of lines 208-209 cut only strings that
\* decoded as hex, which are ASCII.
BcsToReturn(tx, codec) ==
    IF reserialize_mode
    THEN LET r == try_reserialize(tx.raw_bcs_hex, codec) IN
         IF r.ok
         THEN [bcs_hex |-> r.val,
               diag |-> [reserialize |-> "ok", out |-> r.out,
                         length_changed |-> ByteLen(tx.raw_bcs_hex) # ByteLen(r.val),
                         content_changed |-> tx.raw_bcs_hex # r.val]]
         ELSE [bcs_hex |-> tx.raw_bcs_hex,
               diag |-> [NoDiag EXCEPT !.reserialize = r.err]]
    ELSE [bcs_hex |-> tx.raw_bcs_hex, diag |-> NoDiag]

\* Variant of Found that reads the sequence number from the hex it returns.
FoundRecomputed(tx, codec) ==
    LET b == BcsToReturn(tx, codec)
        d == HexDecodeOf(Strip0x(b.bcs_hex))
    IN  Response("OK", Some(b.bcs_hex), tx.secondary_signature_hex,
                 IF d.ok /\ Len(d.bytes) >= MinSeqLen
                 THEN Some(FromLeBytes(SubSeq(d.bytes, SeqOffset + 1, SeqOffset + SeqWidth)))
                 ELSE None,
                 Some(tx.stored_at), Some(WrappingSub(now, tx.stored_at)), b.diag)

\* The reply for a found record (lines 225-235): the record's fields as they
\* are when the reply is built, with the hex and the elapsed seconds computed
\* before (lines 182-223).
Reply(tx, b, elapsed) ==
    Response("OK", Some(b.bcs_hex), tx.secondary_signature_hex,
             tx.sequence_number, Some(tx.stored_at), Some(elapsed), b.diag)

\* What get_transaction answers for a found record (lines 181-235).
Found(tx, codec) == Reply(tx, BcsToReturn(tx, codec), WrappingSub(now, tx.stored_at))

\* Variant of NotFound that answers OK with an empty payload.
NotFoundAsEmpty == Response("OK", Some(<<>>), None, None, None, None, NoDiag)

\* The reply for an unknown identifier (lines 236-249).
NotFound == Response("NOT_FOUND", None, None, None, None, None, NoDiag)

\* The answers the codec may give when get_transaction(id) runs.
AnswersFor(id) ==
    LET o == MapGet(transactions, id) IN
    IF reserialize_mode /\ IsSome(o) /\ HexDecode(Strip0x(Unwrap(o).raw_bcs_hex)).ok
    THEN CodecAnswers(HexDecode(Strip0x(Unwrap(o).raw_bcs_hex)).bytes)
    ELSE {NoAnswer}

\* Variant of get_transaction that writes the hex it returns back to the record.
get_transaction_writeback(id, codec) ==
    /\ req' = Request("get_transaction", id, codec)
    /\ resp' = IF IsSome(MapGet(transactions, id))
               THEN Found(Unwrap(MapGet(transactions, id)), codec)
               ELSE NotFound
    /\ transactions' =
          IF IsSome(MapGet(transactions, id))
          THEN [transactions EXCEPT ![id] =
                  Some([Unwrap(@) EXCEPT !.raw_bcs_hex = Unwrap(resp'.bcs_hex)])]
          ELSE transactions
    /\ UNCHANGED <<reserialize_mode, now, hist>>
    /\ UNCHANGED conc

get_transaction(id, codec) ==
    /\ req' = Request("get_transaction", id, codec)
    /\ resp' = IF IsSome(MapGet(transactions, id))
               THEN Found(Unwrap(MapGet(transactions, id)), codec)
               ELSE NotFound
    /\ UNCHANGED <<transactions, reserialize_mode, now, hist>>
    /\ UNCHANGED conc

\* ------------------------------------------------------------------ clock

Tick ==
    /\ now < MaxTime
    /\ now' = now + 1
    /\ UNCHANGED <<transactions, reserialize_mode, req, resp, hist>>
    /\ UNCHANGED conc

\* ------------------------------------------------------------------- spec

StoreTransaction == \E id \in Ids, s \in BcsInputs : store_transaction(id, s)
StoreSignature == \E id \in Ids, s \in SigInputs : store_signature(id, s)
GetTransaction == \E id \in Ids : \E c \in AnswersFor(id) : get_transaction(id, c)

Next == StoreTransaction \/ StoreSignature \/ GetTransaction \/ Tick

Spec == Init /\ [][Next]_vars

\* ---------------------------------------------------- concurrent requests
\* The handlers step by step, with several requests in flight.  A handler runs
\* without the lock up to its lock().unwrap(), waits there, and holds the
\* guard from then until it returns.  Here the clock is the system clock,
\* which can be set.

ConcIds == {"t1"}
ConcBcsInputs == { <<"g", NonAscii>>, <<"0", "x">> \o HexEncode(Exact42),
                   Rep(PreviewLen - 1, "0") \o <<NonAscii>> \o Rep(TailLen, "0") }
ConcSigInputs == { <<"a", "b">>,
                   Rep(PreviewLen - 1, "a") \o <<NonAscii>> \o Rep(TailLen, "a") }

\* Task t takes up a request; local is what the handler computed before the
\* lock, floor whether the request is a get_transaction that began after a
\* store_transaction had returned for the identifier.
Started(t, op, id, arg, local) ==
    tasks' = [tasks EXCEPT ![t] =
                [pc |-> "lock", op |-> op, id |-> id, arg |-> arg, local |-> local,
                 floor |-> (op = "get_transaction" /\ IsSome(hist[id].bcs_hex))]]

\* Task t ends its request with this reply.
Finished(t, op, id, arg, response) ==
    /\ tasks' = [tasks EXCEPT ![t] = Idle]
    /\ req' = Request(op, id, arg)
    /\ resp' = response

\* store_transaction up to the lock (lines 97-115): the preview, the parse,
\* the record with the time read here.
store_transaction_begin(t, id, bcs_hex) ==
    /\ tasks[t].pc = "idle"
    /\ IF PreviewPanics(bcs_hex)
       THEN Finished(t, "store_transaction", id, bcs_hex, Panicked)
       ELSE /\ Started(t, "store_transaction", id, bcs_hex, NewRecord(bcs_hex))
            /\ UNCHANGED <<req, resp>>
    /\ UNCHANGED <<transactions, reserialize_mode, now, hist, guard, poisoned>>

\* store_signature up to the lock (lines 138-143).
store_signature_begin(t, id, signature_hex) ==
    /\ tasks[t].pc = "idle"
    /\ IF PreviewPanics(signature_hex)
       THEN Finished(t, "store_signature", id, signature_hex, Panicked)
       ELSE /\ Started(t, "store_signature", id, signature_hex, <<>>)
            /\ UNCHANGED <<req, resp>>
    /\ UNCHANGED <<transactions, reserialize_mode, now, hist, guard, poisoned>>

\* get_transaction up to the lock (lines 176-177).
get_transaction_begin(t, id) ==
    /\ tasks[t].pc = "idle"
    /\ Started(t, "get_transaction", id, <<>>, <<>>)
    /\ UNCHANGED <<transactions, reserialize_mode, now, req, resp, hist,
                   guard, poisoned>>

\* Variant of lock that does not wait for the guard to be dropped.
lock_shared(t) ==
    /\ tasks[t].pc = "lock"
    /\ IF poisoned
       THEN /\ Finished(t, tasks[t].op, tasks[t].id, tasks[t].arg, Panicked)
            /\ UNCHANGED guard
       ELSE /\ guard' = guard \cup {t}
            /\ tasks' = [tasks EXCEPT ![t].pc = "locked"]
            /\ UNCHANGED <<req, resp>>
    /\ UNCHANGED <<transactions, reserialize_mode, now, hist, poisoned>>

\* state.transactions.lock().unwrap() (lines 117, 145, 179): waits until no
\* task holds the guard; on a poisoned mutex lock() is an Err and unwrap panics.
lock(t) ==
    /\ tasks[t].pc = "lock"
    /\ guard = {}
    /\ IF poisoned
       THEN /\ Finished(t, tasks[t].op, tasks[t].id, tasks[t].arg, Panicked)
            /\ UNCHANGED guard
       ELSE /\ guard' = guard \cup {t}
            /\ tasks' = [tasks EXCEPT ![t].pc = "locked"]
            /\ UNCHANGED <<req, resp>>
    /\ UNCHANGED <<transactions, reserialize_mode, now, hist, poisoned>>

\* store_transaction under the guard (lines 118-131): insert, reply, return.
store_transaction_locked(t) ==
    LET id == tasks[t].id IN
    /\ tasks[t].pc = "locked"
    /\ tasks[t].op = "store_transaction"
    /\ transactions' = MapInsert(transactions, id, tasks[t].local)
    /\ Finished(t, "store_transaction", id, tasks[t].arg,
                Response("OK", None, None, tasks[t].local.sequence_number,
                         None, None, NoDiag))
    /\ hist' = [hist EXCEPT ![id] = [bcs_hex |-> Some(tasks[t].arg),
                                     signature_hex |-> None]]
    /\ guard' = guard \ {t}
    /\ UNCHANGED <<reserialize_mode, now, poisoned>>

\* store_signature under the guard (lines 147-169).
store_signature_locked(t) ==
    LET id == tasks[t].id IN
    /\ tasks[t].pc = "locked"
    /\ tasks[t].op = "store_signature"
    /\ IF IsSome(MapGet(transactions, id))
       THEN /\ transactions' = SetSignature(transactions, id, tasks[t].arg)
            /\ Finished(t, "store_signature", id, tasks[t].arg,
                        Response("OK", None, None, None, None, None, NoDiag))
            /\ hist' = [hist EXCEPT ![id].signature_hex = Some(tasks[t].arg)]
       ELSE /\ Finished(t, "store_signature", id, tasks[t].arg,
                        Response("NOT_FOUND", None, None, None, None, None, NoDiag))
            /\ UNCHANGED <<transactions, hist>>
    /\ guard' = guard \ {t}
    /\ UNCHANGED <<reserialize_mode, now, poisoned>>

\* get_transaction under the guard, first part (lines 181-223, 236-249): the
\* lookup, the elapsed seconds, the hex to return.  now - tx.stored_at below
\* zero panics in a build with overflow checks, with the guard held, which
\* poisons the mutex; it wraps in a build without.
get_transaction_lookup(t, codec) ==
    LET id == tasks[t].id
        o == MapGet(transactions, id)
    IN
    /\ tasks[t].pc = "locked"
    /\ tasks[t].op = "get_transaction"
    /\ IF ~IsSome(o)
       THEN /\ Finished(t, "get_transaction", id, codec, NotFound)
            /\ guard' = guard \ {t}
            /\ UNCHANGED poisoned
       ELSE \/ /\ now < Unwrap(o).stored_at
               /\ Finished(t, "get_transaction", id, codec, Panicked)
               /\ guard' = guard \ {t}
               /\ poisoned' = TRUE
            \/ /\ tasks' = [tasks EXCEPT ![t].pc = "reply",
                                         ![t].arg = codec,
                                         ![t].local =
                                            [b |-> BcsToReturn(Unwrap(o), codec),
                                             elapsed |-> WrappingSub(now, Unwrap(o).stored_at)]]
               /\ UNCHANGED <<req, resp, guard, poisoned>>
    /\ UNCHANGED <<transactions, reserialize_mode, now, hist>>

\* get_transaction under the guard, second part (lines 225-235): the reply
\* from the record's fields, and the return.
get_transaction_reply(t) ==
    /\ tasks[t].pc = "reply"
    /\ Finished(t, "get_transaction", tasks[t].id, tasks[t].arg,
                Reply(Unwrap(MapGet(transactions, tasks[t].id)),
                      tasks[t].local.b, tasks[t].local.elapsed))
    /\ guard' = guard \ {t}
    /\ UNCHANGED <<transactions, reserialize_mode, now, hist, poisoned>>

\* SystemTime::now() is the wall clock: it can be set, forward or back.
SetClock ==
    /\ \E n \in 0..MaxTime : n # now /\ now' = n
    /\ UNCHANGED <<transactions, reserialize_mode, req, resp, hist>>
    /\ UNCHANGED conc

BeginStoreTransaction ==
    \E t \in Tasks, id \in ConcIds, s \in ConcBcsInputs : store_transaction_begin(t, id, s)
BeginStoreSignature ==
    \E t \in Tasks, id \in ConcIds, s \in ConcSigInputs : store_signature_begin(t, id, s)
BeginGetTransaction == \E t \in Tasks, id \in ConcIds : get_transaction_begin(t, id)
Lock == \E t \in Tasks : lock(t)
InsertTransaction == \E t \in Tasks : store_transaction_locked(t)
AttachSignature == \E t \in Tasks : store_signature_locked(t)
LookupTransaction ==
    \E t \in Tasks :
        /\ tasks[t].pc = "locked"
        /\ \E c \in AnswersFor(tasks[t].id) : get_transaction_lookup(t, c)
ReplyTransaction == \E t \in Tasks : get_transaction_reply(t)

ConcNext ==
    \/ BeginStoreTransaction \/ BeginStoreSignature \/ BeginGetTransaction
    \/ Lock
    \/ InsertTransaction \/ AttachSignature \/ LookupTransaction \/ ReplyTransaction
    \/ SetClock

SpecConc == Init /\ [][ConcNext]_vars

\* ---------------------------------------------------------------- claims

\* The last request was a get_transaction for an identifier that some
\* store_transaction call has stored.
GotStored == req.op = "get_transaction" /\ IsSome(hist[req.id].bcs_hex)

\* C1: in pass-through mode get_transaction on a stored identifier returns as
\* bcs_hex exactly the string passed to the last store_transaction that stored
\* under it: no prefix or case normalisation, whatever store_signature and
\* get_transaction calls came between.
C1_PassThroughReturnsStoredHex ==
    (~reserialize_mode /\ GotStored)
        => /\ resp.status = "OK"
           /\ resp.bcs_hex = hist[req.id].bcs_hex

\* A pass-through get of a signed record stored with a 0X prefix.
C1_Witness ==
    /\ ~reserialize_mode
    /\ GotStored
    /\ req.held = "signed"
    /\ resp.bcs_hex = Some(<<"0", "X">> \o HexEncode(LongHi))

ReserializeErrors == {"hex decode error", "BCS deserialize error", "BCS serialize error"}

\* C2: in reserialize mode, when try_reserialize fails on the stored hex (hex
\* decoding, the codec's decode or the codec's encode), get_transaction returns
\* the stored hex exactly, with success = true and status OK; the failure shows
\* only in the diagnostics.
C2_ReserializeFailureFallsBack ==
    (/\ reserialize_mode
     /\ GotStored
     /\ ~try_reserialize(Unwrap(hist[req.id].bcs_hex), req.arg).ok)
        => /\ resp.status = "OK"
           /\ resp.success
           /\ resp.bcs_hex = hist[req.id].bcs_hex
           /\ resp.diag.reserialize \in ReserializeErrors

\* A get in reserialize mode on which the codec's encode failed.
C2_Witness ==
    /\ reserialize_mode
    /\ GotStored
    /\ req.arg.from_bytes
    /\ ~req.arg.to_bytes
    /\ resp.diag.reserialize = "BCS serialize error"

\* A leading prefix marker, in either case.
HasPrefixMarker(s) == Len(s) >= 2 /\ s[1] = "0" /\ s[2] \in {"x", "X"}

LowercaseHex(s) == \A i \in 1..Len(s) : \E k \in 1..16 : HexLower[k] = s[i]

\* C3: in reserialize mode, when the hex decodes and the codec's decode and
\* encode succeed, get_transaction returns the lowercase hex of the re-encoded
\* bytes, with a leading 0x exactly when the stored hex had a prefix marker,
\* and reports success whether or not the result differs from the stored hex.
C3_ReserializeReturnsReencoded ==
    (/\ reserialize_mode
     /\ GotStored
     /\ HexDecode(Strip0x(Unwrap(hist[req.id].bcs_hex))).ok
     /\ req.arg.from_bytes
     /\ req.arg.to_bytes)
        => LET stored == Unwrap(hist[req.id].bcs_hex)
               digits == HexEncode(req.arg.out)
           IN  /\ resp.status = "OK"
               /\ resp.success
               /\ LowercaseHex(digits)
               /\ HexDecodeOf(digits) = [ok |-> TRUE, bytes |-> req.arg.out]
               /\ resp.bcs_hex = Some(IF HasPrefixMarker(stored)
                                      THEN <<"0", "x">> \o digits ELSE digits)

\* A successful round trip of a 0x-prefixed record that changed the bytes.
C3_Witness ==
    /\ reserialize_mode
    /\ GotStored
    /\ resp.diag.reserialize = "ok"
    /\ resp.diag.content_changed
    /\ HasPrefixMarker(Unwrap(hist[req.id].bcs_hex))
    /\ HexDecode(Strip0x(Unwrap(hist[req.id].bcs_hex))).bytes # req.arg.out

\* C4: get_transaction on a stored identifier returns no signature when no
\* store_signature has succeeded for it since its last store_transaction, and
\* otherwise the signature_hex of the last store_signature that succeeded.
C4_SignatureReturned ==
    GotStored => resp.secondary_signature_hex = hist[req.id].signature_hex

\* A get that returns an attached signature.
C4_Witness ==
    /\ GotStored
    /\ resp.secondary_signature_hex = Some(<<"0", "x", "C", "D">>)

\* A step of a handler (the clock stands still while a handler runs).
HandlerStep(op) == now' = now /\ req'.op = op

\* C5: a store_transaction that returns leaves under its identifier exactly
\* the record built from its arguments: the new raw hex, the sequence number
\* extracted from it (the one the reply reports), no signature, and the
\* current time; whatever record and signature the identifier held are gone.
C5_StoreReplacesRecord ==
    [][(HandlerStep("store_transaction") /\ resp'.status = "OK")
          => /\ transactions'[req'.id] =
                    Some([raw_bcs_hex |-> req'.arg,
                          sequence_number |-> parse_sequence_number(req'.arg),
                          secondary_signature_hex |-> None,
                          stored_at |-> now])
             /\ resp'.sequence_number = parse_sequence_number(req'.arg)]_vars

\* A store_transaction over a record that held a signature.
C5_Witness ==
    /\ req.op = "store_transaction"
    /\ resp.status = "OK"
    /\ req.held = "signed"
    /\ Held(req.id) = "unsigned"

\* C6: get_transaction on an identifier that no store_transaction has stored
\* returns not-found, success = false, with bcs_hex, secondary_signature_hex,
\* sequence_number and stored_at absent, in both modes, and does not run the
\* reserialize round trip.
C6_UnknownIdIsNotFound ==
    (req.op = "get_transaction" /\ ~IsSome(hist[req.id].bcs_hex))
        => /\ resp.status = "NOT_FOUND"
           /\ ~resp.success
           /\ resp.bcs_hex = None
           /\ resp.secondary_signature_hex = None
           /\ resp.sequence_number = None
           /\ resp.stored_at = None
           /\ resp.diag = NoDiag

\* A not-found get in reserialize mode while another identifier is stored.
C6_Witness ==
    /\ reserialize_mode
    /\ req.op = "get_transaction"
    /\ resp.status = "NOT_FOUND"
    /\ \E j \in Ids : IsSome(transactions[j])

\* C7: a store_signature that returns, on an identifier without a record,
\* returns not-found (success = false) and leaves the store as it was; on an
\* identifier with a record it returns success and sets that record's
\* secondary_signature_hex to the given value, changing nothing else.
C7_StoreSignatureOutcome ==
    [][(HandlerStep("store_signature") /\ resp'.status # "PANIC")
          => IF IsSome(transactions[req'.id])
             THEN /\ resp'.status = "OK"
                  /\ resp'.success
                  /\ transactions' =
                        [transactions EXCEPT ![req'.id] =
                            Some([Unwrap(@) EXCEPT
                                     !.secondary_signature_hex = Some(req'.arg)])]
             ELSE /\ resp'.status = "NOT_FOUND"
                  /\ ~resp'.success
                  /\ transactions' = transactions]_vars

\* A store_signature on an unknown identifier while another one is stored.
C7_Witness ==
    /\ req.op = "store_signature"
    /\ resp.status = "NOT_FOUND"
    /\ req.held = "nothing"
    /\ \E j \in Ids : IsSome(transactions[j])

\* C8: a step changes the record of an identifier only if it is a
\* store_transaction or store_signature for that identifier, and what a
\* get_transaction returns is taken from the record under its own identifier.
C8_KeyIsolation ==
    [][/\ \A j \in Ids :
            transactions'[j] # transactions[j]
                => /\ req'.id = j
                   /\ req'.op \in {"store_transaction", "store_signature"}
       /\ (HandlerStep("get_transaction") /\ resp'.status = "OK")
            => LET tx == Unwrap(transactions[req'.id]) IN
               /\ resp'.secondary_signature_hex = tx.secondary_signature_hex
               /\ resp'.sequence_number = tx.sequence_number
               /\ resp'.stored_at = Some(tx.stored_at)
               /\ resp'.bcs_hex \in
                    {Some(tx.raw_bcs_hex),
                     Some(try_reserialize(tx.raw_bcs_hex, req'.arg).val)}
               /\ (~reserialize_mode => resp'.bcs_hex = Some(tx.raw_bcs_hex))]_vars

\* A get of one identifier while the other holds another payload and signature.
C8_Witness ==
    /\ req.op = "get_transaction"
    /\ resp.status = "OK"
    /\ \E j \in Ids :
          /\ j # req.id
          /\ IsSome(transactions[j])
          /\ Some(Unwrap(transactions[j]).raw_bcs_hex) # resp.bcs_hex
          /\ IsSome(Unwrap(transactions[j]).secondary_signature_hex)
          /\ IsSome(resp.secondary_signature_hex)
          /\ Unwrap(transactions[j]).secondary_signature_hex # resp.secondary_signature_hex

\* Byte i (0 the least significant) of a u64 held as 16-bit limbs.
U64Byte(limbs, i) == (limbs[(i \div 2) + 1] \div (IF i % 2 = 0 THEN 1 ELSE 256)) % 256

\* C9: for a buffer of at least 40 bytes parse_sequence_number returns the u64
\* whose byte i is byte 32+i of the buffer (little-endian), whatever the other
\* bytes are; for a shorter buffer it returns absent; it does not fault.
C9_SequenceNumberIsLittleEndianField ==
    (req.op = "store_transaction" /\ HexDecode(Strip0x(req.arg)).ok)
        => LET bytes == HexDecode(Strip0x(req.arg)).bytes IN
           /\ resp.status = "OK"
           /\ IF Len(bytes) >= 40
              THEN /\ IsSome(resp.sequence_number)
                   /\ Len(Unwrap(resp.sequence_number)) = 4
                   /\ \A k \in 1..4 : Unwrap(resp.sequence_number)[k] \in 0..65535
                   /\ \A i \in 0..7 :
                         U64Byte(Unwrap(resp.sequence_number), i) = bytes[32 + i + 1]
              ELSE resp.sequence_number = None

\* A store whose sequence number has a high byte set: 0x8807060504030201.
C9_Witness ==
    /\ req.op = "store_transaction"
    /\ req.arg = ToUpper(HexEncode(LongHi))
    /\ resp.sequence_number = Some(<<513, 1027, 1541, 34823>>)

\* C10 as stated: a record's sequence_number is absent exactly when its raw
\* hex decodes to fewer than 40 bytes.
C10_AbsentIffShort ==
    \A id \in Ids :
        IsSome(transactions[id])
            => LET tx == Unwrap(transactions[id])
                   d == HexDecode(Strip0x(tx.raw_bcs_hex))
               IN  (tx.sequence_number = None) <=> (d.ok /\ Len(d.bytes) < 40)

\* C10, amended: a record's sequence_number is absent exactly when its raw
\* hex, a leading 0x removed, does not decode as hex or decodes to fewer than
\* 40 bytes.
C10_AbsentIffUndecodableOrShort ==
    \A id \in Ids :
        IsSome(transactions[id])
            => LET tx == Unwrap(transactions[id])
                   d == HexDecode(Strip0x(tx.raw_bcs_hex))
               IN  (tx.sequence_number = None) <=> (~d.ok \/ Len(d.bytes) < 40)

\* One record of exactly 40 bytes with a sequence number, one of undecodable
\* hex without.
C10_Witness ==
    \E i, j \in Ids :
        /\ IsSome(transactions[i])
        /\ IsSome(transactions[j])
        /\ Unwrap(transactions[i]).raw_bcs_hex = <<"0", "x">> \o HexEncode(Exact42)
        /\ IsSome(Unwrap(transactions[i]).sequence_number)
        /\ ~HexDecode(Strip0x(Unwrap(transactions[j]).raw_bcs_hex)).ok
        /\ Unwrap(transactions[j]).sequence_number = None

\* The sequence-number field of a byte buffer, absent below 40 bytes.
FieldOf(bytes) ==
    IF Len(bytes) < MinSeqLen THEN None
    ELSE Some(FromLeBytes(SubSeq(bytes, SeqOffset + 1, SeqOffset + SeqWidth)))

\* s without its first two characters.
DropTwo(s) == SubSeq(s, 3, Len(s))

\* C11 as stated: a payload stored with a prefix marker of either case gets
\* the sequence number of the payload without the marker, and on the
\* reserialize path its hex decodes.
C11_PrefixEitherCase ==
    /\ (req.op = "store_transaction" /\ resp.status = "OK" /\ HasPrefixMarker(req.arg)
        /\ HexDecodeOf(DropTwo(req.arg)).ok)
          => resp.sequence_number = FieldOf(HexDecodeOf(DropTwo(req.arg)).bytes)
    /\ (reserialize_mode /\ GotStored /\ HasPrefixMarker(Unwrap(hist[req.id].bcs_hex))
        /\ HexDecodeOf(DropTwo(Unwrap(hist[req.id].bcs_hex))).ok)
          => resp.diag.reserialize # "hex decode error"

\* C11, amended: only a leading lowercase 0x is removed.  A payload stored
\* with 0x gets the sequence number of the payload without it, and the codec
\* is given its bytes; a payload stored with 0X does not decode: its sequence
\* number is absent and the reserialize path falls back to the stored hex.
C11_OnlyLowercasePrefix ==
    /\ (req.op = "store_transaction" /\ resp.status = "OK" /\ HasPrefixMarker(req.arg))
          => IF req.arg[2] = "x"
             THEN resp.sequence_number =
                     IF HexDecodeOf(DropTwo(req.arg)).ok
                     THEN FieldOf(HexDecodeOf(DropTwo(req.arg)).bytes) ELSE None
             ELSE resp.sequence_number = None
    /\ (reserialize_mode /\ GotStored /\ HasPrefixMarker(Unwrap(hist[req.id].bcs_hex)))
          => LET stored == Unwrap(hist[req.id].bcs_hex) IN
             IF stored[2] = "x"
             THEN HexDecodeOf(DropTwo(stored)).ok
                    => /\ resp.diag.reserialize # "hex decode error"
                       /\ req.arg \in CodecAnswers(HexDecodeOf(DropTwo(stored)).bytes)
             ELSE /\ resp.diag.reserialize = "hex decode error"
                  /\ resp.bcs_hex = Some(stored)

\* A reserialize-mode get of a record stored with a 0X prefix: no sequence
\* number, and the fallback.
C11_Witness ==
    /\ reserialize_mode
    /\ GotStored
    /\ Unwrap(hist[req.id].bcs_hex) = <<"0", "X">> \o HexEncode(LongHi)
    /\ resp.sequence_number = None
    /\ resp.diag.reserialize = "hex decode error"

\* C12 as stated: store_transaction completes on every input with success =
\* true, stores the input verbatim under the identifier, and reports no
\* sequence number when the input is not valid hex.
C12_StoreNeverFails ==
    req.op = "store_transaction"
        => /\ resp.status = "OK"
           /\ resp.success
           /\ IsSome(transactions[req.id])
           /\ Unwrap(transactions[req.id]).raw_bcs_hex = req.arg
           /\ (~HexDecodeOf(Strip0xAnyCase(req.arg)).ok => resp.sequence_number = None)

\* C14: a store_signature call that succeeds changes the secondary signature
\* of the record and nothing else of it, and what changes a record's raw hex,
\* sequence number or timestamp is a store_transaction call on its identifier.
C14_SignatureChangesOnlySignature ==
    [][/\ (HandlerStep("store_signature") /\ resp'.status = "OK")
            => /\ IsSome(transactions[req'.id])
               /\ transactions' =
                    [transactions EXCEPT ![req'.id] =
                        Some([Unwrap(@) EXCEPT !.secondary_signature_hex = Some(req'.arg)])]
       /\ \A j \in Ids :
            (/\ IsSome(transactions[j])
             /\ \/ ~IsSome(transactions'[j])
                \/ Unwrap(transactions'[j]).raw_bcs_hex # Unwrap(transactions[j]).raw_bcs_hex
                \/ Unwrap(transactions'[j]).sequence_number
                      # Unwrap(transactions[j]).sequence_number
                \/ Unwrap(transactions'[j]).stored_at # Unwrap(transactions[j]).stored_at)
               => (HandlerStep("store_transaction") /\ req'.id = j)]_vars

\* A signature attached at a later second than the record was stored: the
\* record keeps its timestamp and its sequence number.
C14_Witness ==
    /\ req.op = "store_signature"
    /\ resp.status = "OK"
    /\ now > 0
    /\ Unwrap(transactions[req.id]).stored_at = 0
    /\ IsSome(Unwrap(transactions[req.id]).sequence_number)
    /\ Unwrap(transactions[req.id]).secondary_signature_hex = Some(req.arg)

\* C15: get_transaction leaves the store as it found it, in both modes and
\* whatever the outcome (stored hex returned, re-encoded hex returned,
\* fallback, not found).
C15_GetIsNonDestructive ==
    [][HandlerStep("get_transaction") => transactions' = transactions]_vars

\* A reserialize-mode get returned hex that differs from the stored hex, and
\* the record still holds the stored hex.
C15_Witness ==
    /\ reserialize_mode
    /\ GotStored
    /\ resp.diag.reserialize = "ok"
    /\ resp.bcs_hex # hist[req.id].bcs_hex
    /\ Unwrap(transactions[req.id]).raw_bcs_hex = Unwrap(hist[req.id].bcs_hex)

C17_RecordsAreNeverRemoved ==
    [][/\ \A j \in Ids : IsSome(transactions[j]) => IsSome(transactions'[j])
       /\ \A j \in Ids : IsSome(hist'[j].bcs_hex) => IsSome(transactions'[j])
       /\ (HandlerStep("get_transaction") /\ IsSome(hist[req'.id].bcs_hex))
            => resp'.status = "OK"]_vars

\* Both identifiers stored, and a get of the other one than the last stored,
\* a second later, is found.
C17_Witness ==
    /\ \A j \in Ids : IsSome(transactions[j])
    /\ GotStored
    /\ resp.status = "OK"
    /\ resp.elapsed = Some(U64(1))

\* C18: every record's sequence_number is parse_sequence_number of its raw
\* hex, as computed when it was stored, and get_transaction returns that stored
\* value in both modes, also when the hex it returns is not the stored hex.
C18_SequenceNumberIsStoredValue ==
    /\ \A j \in Ids :
         IsSome(transactions[j])
            => Unwrap(transactions[j]).sequence_number
                  = parse_sequence_number(Unwrap(transactions[j]).raw_bcs_hex)
    /\ GotStored
         => resp.sequence_number = parse_sequence_number(Unwrap(hist[req.id].bcs_hex))

\* A reserialize-mode get returned re-encoded bytes too short to hold the
\* field, with the sequence number of the stored hex.
C18_Witness ==
    /\ reserialize_mode
    /\ GotStored
    /\ resp.diag.reserialize = "ok"
    /\ Len(resp.diag.out) < MinSeqLen
    /\ resp.sequence_number = Some(FromLeBytes(Seq42))

\* The record get_transaction must have seen when it answered OK: the raw hex
\* of the last store_transaction that returned for the identifier, its
\* sequence number, and the signature attached since.
LatestRecord(id, at) ==
    StoredTransaction(Unwrap(hist[id].bcs_hex),
                      parse_sequence_number(Unwrap(hist[id].bcs_hex)),
                      hist[id].signature_hex, at)

\* C13: with requests in flight together, at most one task holds the guard; a
\* task holds it exactly from its lock() to its return; the store changes
\* only in a step of the task that holds it; a get_transaction reads the store
\* holding it, and what it answers is one whole record: the raw hex and
\* sequence number of the last store_transaction that returned, with the
\* signature attached to that record; and a get_transaction that began after
\* a store_transaction had returned for the identifier finds a record.
C13_Linearizable ==
    /\ [](/\ Cardinality(guard) <= 1
          /\ \A t \in Tasks : t \in guard <=> tasks[t].pc \in {"locked", "reply"}
          /\ \A t \in Tasks :
                tasks[t].pc = "reply"
                   => /\ IsSome(transactions[tasks[t].id])
                      /\ tasks[t].local.b =
                            BcsToReturn(Unwrap(transactions[tasks[t].id]), tasks[t].arg)
          /\ (req.op = "get_transaction" /\ resp.status = "OK")
                => /\ IsSome(hist[req.id].bcs_hex)
                   /\ resp = Reply(LatestRecord(req.id, Unwrap(resp.stored_at)),
                                   BcsToReturn(LatestRecord(req.id, Unwrap(resp.stored_at)),
                                               req.arg),
                                   Unwrap(resp.elapsed)))
    /\ [][/\ transactions' # transactions
                => \E t \in guard : tasks[t].pc = "locked" /\ tasks'[t].pc = "idle"
          /\ \A t \in Tasks :
                (tasks[t].op = "get_transaction" /\ tasks[t].pc = "locked"
                 /\ tasks'[t].pc # "locked")
                   => /\ t \in guard
                      /\ tasks[t].floor => IsSome(transactions[tasks[t].id])
                      /\ (tasks'[t].pc = "idle" /\ resp'.status = "NOT_FOUND")
                            => ~tasks[t].floor]_vars

\* A get_transaction that began after a store_transaction returned holds the
\* guard between its two parts, the record signed, while another
\* store_transaction on the identifier waits at the lock.
C13_Witness ==
    \E t, u \in Tasks :
        /\ tasks[t].pc = "reply"
        /\ tasks[t].floor
        /\ IsSome(hist[tasks[t].id].signature_hex)
        /\ tasks[u].pc = "lock"
        /\ tasks[u].op = "store_transaction"
        /\ tasks[u].id = tasks[t].id

\* C19 as stated implies: a task holds the guard exactly from its lock() to
\* its return, and a request that has come to the lock ends with a reply.
C19_EveryRequestCompletes ==
    [][\A t \in Tasks :
          /\ t \in guard' <=> tasks'[t].pc \in {"locked", "reply"}
          /\ (tasks[t].pc \in {"lock", "locked", "reply"} /\ tasks'[t].pc = "idle")
                => resp'.status # "PANIC"]_vars

\* C20 as stated: when get_transaction, holding the guard, has found the
\* record, the current time is not below the record's stored_at, and the
\* mutex is never poisoned.
C20_ElapsedNeverUnderflows ==
    /\ ~poisoned
    /\ \A t \in Tasks :
          (/\ tasks[t].pc = "locked"
           /\ tasks[t].op = "get_transaction"
           /\ IsSome(transactions[tasks[t].id]))
              => now >= Unwrap(transactions[tasks[t].id]).stored_at

====
